---- MODULE Spec2Model ----
(***************************************************************************)
(* Model of the secure password generator (src/src/main.rs):               *)
(*   get_unbiased_random_char  - rejection sampler over a byte pool        *)
(*   generate_secure_password  - injector, filler, shuffle, validate loop  *)
(*   is_valid_password         - per-class recount                         *)
(*   main                      - argument handling and exit status         *)
(*                                                                         *)
(* A u32 is kept at its full width as a pair <<hi, lo>> of 16-bit limbs    *)
(* (value hi * 65536 + lo), because the model checker's integers are       *)
(* narrower than 32 unsigned bits.  Word operators take the limb base as a *)
(* parameter so that the same sampler arithmetic can be enumerated         *)
(* exhaustively over a narrower word.                                      *)
(***************************************************************************)
EXTENDS Integers, Sequences, FiniteSets, Bags, TLC

\* ---------------------------------------------------------------- constants
MAX_PASSWORD_LENGTH == 128
MIN_PASSWORD_LENGTH == 12
ENTROPY_MULTIPLIER == 2
SIZE_OF_U32 == 4
BYTE_RANGE == 256
U32_LIMB == BYTE_RANGE * BYTE_RANGE

UPPERCASE_AsLower ==
  << "a","b","c","d","e","f","g","h","i","j","k","l","m",
     "n","o","p","q","r","s","t","u","v","w","x","y","z" >>
UPPERCASE ==
  << "A","B","C","D","E","F","G","H","I","J","K","L","M",
     "N","O","P","Q","R","S","T","U","V","W","X","Y","Z" >>
LOWERCASE ==
  << "a","b","c","d","e","f","g","h","i","j","k","l","m",
     "n","o","p","q","r","s","t","u","v","w","x","y","z" >>
NUMBERS == << "0","1","2","3","4","5","6","7","8","9" >>
SYMBOLS == << "!","@","#","$","%","^","&","*","(",")","-","_","=","+","[","]" >>

\* ---------------------------------------------------------------- bounds
\* refills the entropy source may spend on pools holding a rejected word
MaxRefills == 3
\* lengths MIN_PASSWORD_LENGTH .. MIN_PASSWORD_LENGTH + MaxExtraLen are generated
MaxExtraLen == 1
\* a pool fill may carry one chosen word in any of the groups 0 .. MaxHole
MaxHole == 2
\* limb base of the narrow word whose values are enumerated exhaustively
SmallLimb == 8
\* alphabet sizes 2 .. MaxN are enumerated over the narrow word
MaxN == 11

\* ---------------------------------------------------------------- words
\* largest value of a two-limb word (u32::MAX for limb base U32_LIMB)
WordMax(B) == << B - 1, B - 1 >>

\* w % n for a two-limb word
WordMod(B, w, n) == (((w[1] % n) * (B % n)) + (w[2] % n)) % n

\* a <= b on two-limb words
WordLe(a, b) == a[1] < b[1] \/ (a[1] = b[1] /\ a[2] <= b[2])

\* a - b on two-limb words, for b <= a
WordSub(B, a, b) ==
  IF a[2] >= b[2] THEN << a[1] - b[1], a[2] - b[2] >>
  ELSE << a[1] - b[1] - 1, a[2] + B - b[2] >>

\* a small natural as a two-limb word
ToWord(B, x) == << x \div B, x % B >>

\* u32::from_le_bytes on a 4-byte slice
from_le_bytes(b) == << b[4] * BYTE_RANGE + b[3], b[2] * BYTE_RANGE + b[1] >>

\* the 4 bytes a u32 occupies in memory, least significant first
to_le_bytes(w) ==
  << w[2] % BYTE_RANGE, w[2] \div BYTE_RANGE, w[1] % BYTE_RANGE, w[1] \div BYTE_RANGE >>

\* ---------------------------------------------------------------- sampler
\* max_valid = MAX - (MAX % charset_size)
max_valid(B, n) == WordSub(B, WordMax(B), ToWord(B, WordMod(B, WordMax(B), n)))

\* the accept test and the index of an accepted word; -1 is None
SampleWord_Strict(B, n, v) ==
  IF WordLe(v, max_valid(B, n)) /\ v # max_valid(B, n) THEN WordMod(B, v, n) ELSE -1
SampleWord(B, n, v) ==
  IF WordLe(v, max_valid(B, n)) THEN WordMod(B, v, n) ELSE -1

None == [tag |-> "None"]
Some(c) == [tag |-> "Some", ch |-> c]
NoCall == [tag |-> "NoCall"]

\* get_unbiased_random_char(charset, entropy_pool, &mut pool_index):
\* the returned Option, the cursor afterwards, and whether the call panicked
\* (remainder by a charset size of zero)
get_unbiased_random_char_ConsumeTail(charset, pool, idx) ==
  LET charset_size == Len(charset) IN
  IF charset_size = 0
    THEN [panic |-> TRUE, ret |-> None, idx |-> idx]
  ELSE IF idx + 4 > Len(pool)
    THEN [panic |-> FALSE, ret |-> None, idx |-> Len(pool)]
  ELSE
    LET random_value == from_le_bytes(SubSeq(pool, idx + 1, idx + 4))
        at == SampleWord(U32_LIMB, charset_size, random_value)
    IN  [panic |-> FALSE,
         ret |-> IF at >= 0 THEN Some(charset[at + 1]) ELSE None,
         idx |-> idx + 4]
get_unbiased_random_char_KeepOnReject(charset, pool, idx) ==
  LET charset_size == Len(charset) IN
  IF charset_size = 0
    THEN [panic |-> TRUE, ret |-> None, idx |-> idx]
  ELSE IF idx + 4 > Len(pool)
    THEN [panic |-> FALSE, ret |-> None, idx |-> idx]
  ELSE
    LET random_value == from_le_bytes(SubSeq(pool, idx + 1, idx + 4))
        at == SampleWord(U32_LIMB, charset_size, random_value)
    IN  [panic |-> FALSE,
         ret |-> IF at >= 0 THEN Some(charset[at + 1]) ELSE None,
         idx |-> IF at >= 0 THEN idx + 4 ELSE idx]
get_unbiased_random_char_EmptyIsNone(charset, pool, idx) ==
  LET charset_size == Len(charset) IN
  IF idx + 4 > Len(pool) \/ charset_size = 0
    THEN [panic |-> FALSE, ret |-> None, idx |-> idx]
  ELSE
    LET random_value == from_le_bytes(SubSeq(pool, idx + 1, idx + 4))
        at == SampleWord(U32_LIMB, charset_size, random_value)
    IN  [panic |-> FALSE,
         ret |-> IF at >= 0 THEN Some(charset[at + 1]) ELSE None,
         idx |-> idx + 4]
get_unbiased_random_char(charset, pool, idx) ==
  LET charset_size == Len(charset) IN
  IF charset_size = 0
    THEN [panic |-> TRUE, ret |-> None, idx |-> idx]
  ELSE IF idx + 4 > Len(pool)
    THEN [panic |-> FALSE, ret |-> None, idx |-> idx]
  ELSE
    LET random_value == from_le_bytes(SubSeq(pool, idx + 1, idx + 4))
        at == SampleWord(U32_LIMB, charset_size, random_value)
    IN  [panic |-> FALSE,
         ret |-> IF at >= 0 THEN Some(charset[at + 1]) ELSE None,
         idx |-> idx + 4]

\* ---------------------------------------------------------------- requirements
\* PasswordRequirements
Requirements(hu, hl, hn, hs, mv) ==
  [has_upper |-> hu, has_lower |-> hl, has_number |-> hn, has_symbol |-> hs,
   min_upper |-> mv[1], min_lower |-> mv[2], min_number |-> mv[3], min_symbol |-> mv[4]]

\* the record main builds
DefaultRequirements == Requirements(TRUE, TRUE, TRUE, TRUE, << 1, 1, 1, 1 >>)

\* minimum counts a direct caller passes: satisfiable, exactly filling the
\* length, and exceeding it
MinVectors ==
  { << 1, 1, 1, 1 >>, << 0, 0, 0, 0 >>, << 2, 0, 1, 0 >>, << 0, 0, 1, 2 >>,
    << 3, 3, 3, 3 >>, << 3, 3, 3, 4 >>, << 4, 4, 4, 4 >> }

ReqSet ==
  { Requirements(hu, hl, hn, hs, mv) :
      hu \in BOOLEAN, hl \in BOOLEAN, hn \in BOOLEAN, hs \in BOOLEAN, mv \in MinVectors }

\* lengths a direct caller passes
LibLengths ==
  { MIN_PASSWORD_LENGTH - 1, MAX_PASSWORD_LENGTH + 1 }
    \cup (MIN_PASSWORD_LENGTH .. MIN_PASSWORD_LENGTH + MaxExtraLen)

\* charset of the four injector loops, in program order
ClassCharset_Swapped(ph) ==
  CASE ph = 1 -> UPPERCASE
    [] ph = 2 -> LOWERCASE
    [] ph = 3 -> SYMBOLS
    [] ph = 4 -> NUMBERS
ClassCharset(ph) ==
  CASE ph = 1 -> UPPERCASE
    [] ph = 2 -> LOWERCASE
    [] ph = 3 -> NUMBERS
    [] ph = 4 -> SYMBOLS

\* bound of the four injector loops, in program order
ClassMin_OneShort(r, ph) ==
  CASE ph = 1 -> IF r.min_upper > 0 THEN r.min_upper - 1 ELSE 0
    [] ph = 2 -> r.min_lower
    [] ph = 3 -> r.min_number
    [] ph = 4 -> r.min_symbol
ClassMin(r, ph) ==
  CASE ph = 1 -> r.min_upper
    [] ph = 2 -> r.min_lower
    [] ph = 3 -> r.min_number
    [] ph = 4 -> r.min_symbol

\* the filler's charset: the enabled alphabets, concatenated
FillerCharset(r) ==
  (IF r.has_upper THEN UPPERCASE ELSE << >>)
    \o (IF r.has_lower THEN LOWERCASE ELSE << >>)
    \o (IF r.has_number THEN NUMBERS ELSE << >>)
    \o (IF r.has_symbol THEN SYMBOLS ELSE << >>)

\* charset.contains(c)
Contains(charset, c) == \E x \in 1 .. Len(charset) : charset[x] = c

\* password.iter().filter(|c| charset.contains(c)).count()
CountIn(charset, pw) == Cardinality({ x \in 1 .. Len(pw) : Contains(charset, pw[x]) })

is_valid_password(pw, r) ==
  /\ CountIn(UPPERCASE, pw) >= r.min_upper
  /\ CountIn(LOWERCASE, pw) >= r.min_lower
  /\ CountIn(NUMBERS, pw) >= r.min_number
  /\ CountIn(SYMBOLS, pw) >= r.min_symbol

\* length < MIN_PASSWORD_LENGTH || length > MAX_PASSWORD_LENGTH
LengthInvalid_OffByOne(len) == len + 1 < MIN_PASSWORD_LENGTH \/ len > MAX_PASSWORD_LENGTH
LengthInvalid(len) == len < MIN_PASSWORD_LENGTH \/ len > MAX_PASSWORD_LENGTH

\* the same range test in main
MainLengthInvalid(len) == len < MIN_PASSWORD_LENGTH \/ len > MAX_PASSWORD_LENGTH

\* min_required
min_required(r) == r.min_upper + r.min_lower + r.min_number + r.min_symbol

\* while password.len() < length
FillerPending_OneShort(pwlen, len) == pwlen + 1 < len
FillerPending(pwlen, len) == pwlen < len

\* password.swap(a, b), on 0-based positions
Swap_Overwrite(pw, a, b) == [pw EXCEPT ![a + 1] = pw[b + 1]]
Swap(pw, a, b) == [pw EXCEPT ![a + 1] = pw[b + 1], ![b + 1] = pw[a + 1]]

\* ---------------------------------------------------------------- entropy source
\* rng.fill_bytes draws every byte afresh.  The model lets the source choose
\* among pools of accepted words that differ from group to group, optionally
\* carrying one chosen word (a rejected value, or a threshold value) in one
\* group.
PatternWord(seed, g) == << 1 + g, 263 + (5 * g) + seed >>

Seeds == { 0, 3 }

\* u32::MAX, max_valid of the 26- and 78-character charsets, and its successor
HoleWords == { << 65535, 65535 >>, << 65535, 65514 >>, << 65535, 65515 >> }

CleanFills == { [seed |-> s, hole |-> -1, word |-> << 0, 0 >>] : s \in Seeds }

EntropyFills ==
  CleanFills \cup { [seed |-> 0, hole |-> h, word |-> w] : h \in 0 .. MaxHole, w \in HoleWords }

FillWord(f, g) == IF g = f.hole THEN f.word ELSE PatternWord(f.seed, g)

\* the n bytes fill_bytes writes for the source's choice f
FillBytes(f, n) ==
  [p \in 1 .. n |-> to_le_bytes(FillWord(f, (p - 1) \div SIZE_OF_U32))[((p - 1) % SIZE_OF_U32) + 1]]

ShuffleSeeds == { 0, 1, 7 }

ShuffleFills == { [seed |-> s, hole |-> -1, word |-> << s, s >>] : s \in ShuffleSeeds }

ShuffleBytes(f, n) ==
  [p \in 1 .. n |->
     to_le_bytes(<< f.seed, f.seed * ((p - 1) \div SIZE_OF_U32) + f.seed >>)[((p - 1) % SIZE_OF_U32) + 1]]

Zeros(n) == [p \in 1 .. n |-> 0]

\* buf.fill(0)
ZeroFill_AllButLast(buf) == [p \in 1 .. Len(buf) |-> IF p < Len(buf) THEN 0 ELSE buf[p]]
ZeroFill(buf) == [p \in 1 .. Len(buf) |-> 0]

\* ---------------------------------------------------------------- command line
\* argument strings are sequences of characters
ProgName == << "p" >>

ArgStrings ==
  { << "1", "1" >>, << "1", "2" >>, << "1", "2", "8" >>, << "1", "2", "9" >>,
    << "+", "1", "2" >>, << "-", "1", "2" >>, << "0" >>, << >>, << "+" >>,
    << "a", "b", "c" >>, << "1", "2", "a" >> }

ArgVectors ==
  { << ProgName >> } \cup { << ProgName, a >> : a \in ArgStrings }
    \cup { << ProgName, << "1", "2" >>, << "1", "2" >> >> }

IsDigit(c) == Contains(NUMBERS, c)

DigitValue(c) == (CHOOSE d \in 1 .. 10 : NUMBERS[d] = c) - 1

RECURSIVE DecimalValue(_, _)
DecimalValue(s, acc) ==
  IF Len(s) = 0 THEN acc ELSE DecimalValue(Tail(s), acc * 10 + DigitValue(s[1]))

\* str::parse::<usize>(): an optional '+', then one or more decimal digits;
\* -1 stands for Err
ParseUsize(s) ==
  LET digits == IF Len(s) > 0 /\ s[1] = "+" THEN Tail(s) ELSE s IN
  IF Len(digits) = 0 \/ (\E x \in 1 .. Len(digits) : ~IsDigit(digits[x]))
    THEN -1
    ELSE DecimalValue(digits, 0)

\* ---------------------------------------------------------------- state
VARIABLES
  pc,              \* position of the program
  caller,          \* "main": the command line; "direct": a caller of generate_secure_password
  args,            \* env::args()
  length,          \* the length argument of generate_secure_password
  req,             \* the requirements argument
  rng,             \* "none" until ChaCha20Rng::from_entropy() has run, then "seeded"
  refills,         \* number of rng.fill_bytes(&mut entropy_pool) calls so far
  password,        \* the Vec<char> under assembly
  entropy_pool,    \* the pool's bytes (empty before it is allocated)
  pool_index,      \* the cursor
  phase,           \* 1..4: the injector loop of that class; 5: the filler loop
  k,               \* completed iterations of the current injector loop
  ret,             \* what the last get_unbiased_random_char call returned
  shuffle_entropy, \* the shuffle buffer's bytes (empty before it is allocated)
  i,               \* the shuffle loop's index
  result,          \* the returned String, as its characters; << >> before the return
  returned,        \* generate_secure_password has returned
  stdout,          \* lines printed to standard output
  stderr,          \* lines printed to standard error
  exit_code,       \* process exit status; -1 while running
  panic_msg,       \* message of the panic that ended the run; "" if none
  h_charset,       \* sampler harness: the charset argument
  u_n,             \* narrow-word enumeration: the alphabet size
  u_next,          \* narrow-word enumeration: next word value to feed
  u_count          \* narrow-word enumeration: accepted words per index

vars ==
  << pc, caller, args, length, req, rng, refills, password, entropy_pool, pool_index,
     phase, k, ret, shuffle_entropy, i, result, returned, stdout, stderr, exit_code,
     panic_msg, h_charset, u_n, u_next, u_count >>

genVars ==
  << rng, refills, password, entropy_pool, pool_index, phase, k, ret,
     shuffle_entropy, i, result, returned >>

ioVars == << stdout, stderr, exit_code >>

auxVars == << h_charset, u_n, u_next, u_count >>

\* values of the variables a specification does not use
GenIdle ==
  /\ rng = "none" /\ refills = 0 /\ password = << >> /\ entropy_pool = << >>
  /\ pool_index = 0 /\ phase = 0 /\ k = 0 /\ ret = NoCall
  /\ shuffle_entropy = << >> /\ i = 0 /\ result = << >> /\ returned = FALSE

IoIdle == stdout = << >> /\ stderr = << >> /\ exit_code = -1 /\ panic_msg = ""

AuxIdle == h_charset = << >> /\ u_n = 0 /\ u_next = 0 /\ u_count = << >>

\* the program starts either at main with some argument vector, or at a
\* direct call of generate_secure_password(length, &req)
Init ==
  /\ GenIdle /\ IoIdle /\ AuxIdle
  /\ \/ /\ caller = "main" /\ pc = "main"
        /\ args \in ArgVectors
        /\ length = 0 /\ req = DefaultRequirements
     \/ /\ caller = "direct" /\ pc = "call"
        /\ args = << >>
        /\ length \in LibLengths /\ req \in ReqSet

\* a panic unwinds out of generate_secure_password; under main the process
\* ends with status 101
Panic(msg) ==
  /\ pc' = "panicked"
  /\ panic_msg' = msg
  /\ exit_code' = IF caller = "main" THEN 101 ELSE exit_code
  /\ UNCHANGED << caller, args, length, req, stdout, stderr, auxVars >>

\* where control goes once (ph, kk) iterations are done and the buffer holds
\* pwlen characters: the next pending injector iteration, else the filler
\* loop, else the shuffle
RECURSIVE Advance(_, _, _)
Advance(ph, kk, pwlen) ==
  IF ph <= 4
    THEN IF kk < ClassMin(req, ph)
           THEN [pc |-> "draw1", phase |-> ph, k |-> kk]
           ELSE Advance(ph + 1, 0, pwlen)
    ELSE IF FillerPending(pwlen, length)
           THEN [pc |-> "draw1", phase |-> 5, k |-> 0]
           ELSE [pc |-> "shuffle_init", phase |-> 5, k |-> 0]

\* the charset the sampler is called with in the current loop
CurrentCharset == IF phase <= 4 THEN ClassCharset(phase) ELSE FillerCharset(req)

pool_size_NoWordSize == length * ENTROPY_MULTIPLIER
pool_size_NoMultiplier == length * SIZE_OF_U32
pool_size_ExtraSlot == length * (ENTROPY_MULTIPLIER + 1) * SIZE_OF_U32
pool_size == length * ENTROPY_MULTIPLIER * SIZE_OF_U32

\* the pools the source may deliver at this refill
AllowedFills == IF refills + 1 < MaxRefills THEN EntropyFills ELSE CleanFills

\* ---------------------------------------------------------------- main
\* main up to the call of generate_secure_password
MainStart ==
  /\ pc = "main"
  /\ IF Len(args) # 2
       THEN /\ stderr' = Append(stderr, << "Usage: ", args[1], " <password_length>" >>)
            /\ exit_code' = 1 /\ pc' = "exited"
            /\ UNCHANGED << length, req >>
     ELSE IF ParseUsize(args[2]) < 0
       THEN /\ stderr' = Append(stderr, << "Invalid password length" >>)
            /\ exit_code' = 1 /\ pc' = "exited"
            /\ UNCHANGED << length, req >>
     ELSE IF MainLengthInvalid(ParseUsize(args[2]))
       THEN /\ stderr' = Append(stderr, << "Password length must be between ",
                                           MIN_PASSWORD_LENGTH, " and ", MAX_PASSWORD_LENGTH >>)
            /\ exit_code' = 1 /\ pc' = "exited"
            /\ UNCHANGED << length, req >>
     ELSE /\ length' = ParseUsize(args[2])
          /\ req' = DefaultRequirements
          /\ pc' = "call"
          /\ UNCHANGED << stderr, exit_code >>
  /\ UNCHANGED << caller, args, genVars, stdout, panic_msg, auxVars >>

\* println!("Generated Secure Password: {}", password) and the return from main
MainPrint ==
  /\ pc = "returned" /\ caller = "main"
  /\ stdout' = Append(stdout, << "Generated Secure Password: ", result >>)
  /\ exit_code' = 0
  /\ pc' = "exited"
  /\ UNCHANGED << caller, args, length, req, genVars, stderr, panic_msg, auxVars >>

\* ---------------------------------------------------------------- generate_secure_password
\* entry: the two argument checks, then the rng, the buffer and the pool
GenEnter ==
  /\ pc = "call"
  /\ IF LengthInvalid(length)
       THEN Panic("Invalid password length") /\ UNCHANGED genVars
     ELSE IF length < min_required(req)
       THEN Panic("Password length too short for requirements") /\ UNCHANGED genVars
     ELSE /\ rng' = "seeded"
          /\ password' = << >>
          /\ entropy_pool' = Zeros(pool_size)
          /\ pool_index' = pool_size
          /\ pc' = "loop"
          /\ UNCHANGED << caller, args, length, req, refills, phase, k, ret, shuffle_entropy,
                          i, result, returned, ioVars, panic_msg, auxVars >>

\* top of the outer loop: clear the buffer, refill an exhausted pool
LoopTop ==
  /\ pc = "loop"
  /\ password' = << >>
  /\ IF pool_index + 4 > pool_size
       THEN \E f \in AllowedFills :
              /\ entropy_pool' = FillBytes(f, pool_size)
              /\ pool_index' = 0
              /\ refills' = refills + 1
       ELSE UNCHANGED << entropy_pool, pool_index, refills >>
  /\ LET nx == Advance(1, 0, 0) IN pc' = nx.pc /\ phase' = nx.phase /\ k' = nx.k
  /\ UNCHANGED << caller, args, length, req, rng, ret, shuffle_entropy, i, result, returned,
                  ioVars, panic_msg, auxVars >>

\* the sampler call in the condition of `while let None = ...`
Draw1 ==
  /\ pc = "draw1"
  /\ LET r == get_unbiased_random_char(CurrentCharset, entropy_pool, pool_index) IN
     IF r.panic
       THEN /\ Panic("attempt to calculate the remainder with a divisor of zero")
            /\ UNCHANGED genVars
       ELSE /\ ret' = r.ret
            /\ pool_index' = r.idx
            /\ pc' = IF r.ret = None THEN "refill" ELSE "draw2"
            /\ UNCHANGED << caller, args, length, req, rng, refills, password, entropy_pool,
                            phase, k, shuffle_entropy, i, result, returned, ioVars,
                            panic_msg, auxVars >>

\* the body of the while loop: refill the pool, reset the cursor
Refill ==
  /\ pc = "refill"
  /\ \E f \in AllowedFills : entropy_pool' = FillBytes(f, pool_size)
  /\ pool_index' = 0
  /\ refills' = refills + 1
  /\ pc' = "draw1"
  /\ UNCHANGED << caller, args, length, req, rng, password, phase, k, ret, shuffle_entropy,
                  i, result, returned, ioVars, panic_msg, auxVars >>

\* password.push(get_unbiased_random_char(..).unwrap()), then on to the next
\* iteration
Draw2 ==
  /\ pc = "draw2"
  /\ LET r == get_unbiased_random_char(CurrentCharset, entropy_pool, pool_index) IN
     IF r.panic
       THEN /\ Panic("attempt to calculate the remainder with a divisor of zero")
            /\ UNCHANGED genVars
     ELSE IF r.ret = None
       THEN /\ Panic("called Option::unwrap() on a None value")
            /\ ret' = r.ret
            /\ pool_index' = r.idx
            /\ UNCHANGED << rng, refills, password, entropy_pool, phase, k, shuffle_entropy,
                            i, result, returned >>
     ELSE /\ ret' = r.ret
          /\ pool_index' = r.idx
          /\ password' = Append(password, r.ret.ch)
          /\ LET nx == Advance(phase, k + 1, Len(password) + 1) IN
               pc' = nx.pc /\ phase' = nx.phase /\ k' = nx.k
          /\ UNCHANGED << caller, args, length, req, rng, refills, entropy_pool,
                          shuffle_entropy, i, result, returned, ioVars, panic_msg, auxVars >>

\* the shuffle buffer is allocated and filled; the loop index starts at the
\* last position
ShuffleInit ==
  /\ pc = "shuffle_init"
  /\ \E f \in ShuffleFills : shuffle_entropy' = ShuffleBytes(f, length * SIZE_OF_U32)
  /\ i' = Len(password) - 1
  /\ pc' = IF Len(password) - 1 >= 1 THEN "shuffle" ELSE "validate"
  /\ UNCHANGED << caller, args, length, req, rng, refills, password, entropy_pool, pool_index,
                  phase, k, ret, result, returned, ioVars, panic_msg, auxVars >>

\* one iteration of `for i in (1..password.len()).rev()`
ShuffleStep ==
  /\ pc = "shuffle"
  /\ IF (i + 1) * 4 > Len(shuffle_entropy)
       THEN Panic("range end index out of range for slice") /\ UNCHANGED genVars
       ELSE LET random_value == from_le_bytes(SubSeq(shuffle_entropy, i * 4 + 1, (i + 1) * 4))
                j == WordMod(U32_LIMB, random_value, i + 1)
            IN  /\ password' = Swap(password, i, j)
                /\ i' = i - 1
                /\ pc' = IF i - 1 >= 1 THEN "shuffle" ELSE "validate"
                /\ UNCHANGED << caller, args, length, req, rng, refills, entropy_pool,
                                pool_index, phase, k, ret, shuffle_entropy, result, returned,
                                ioVars, panic_msg, auxVars >>

\* is_valid_password: zero both buffers and return, or go round the outer
\* loop again
Validate ==
  /\ pc = "validate"
  /\ IF is_valid_password(password, req)
       THEN /\ entropy_pool' = ZeroFill(entropy_pool)
            /\ shuffle_entropy' = ZeroFill(shuffle_entropy)
            /\ result' = password
            /\ returned' = TRUE
            /\ pc' = "returned"
       ELSE /\ pc' = "loop"
            /\ UNCHANGED << entropy_pool, shuffle_entropy, result, returned >>
  /\ UNCHANGED << caller, args, length, req, rng, refills, password, pool_index, phase, k,
                  ret, i, ioVars, panic_msg, auxVars >>

Next ==
  \/ MainStart
  \/ MainPrint
  \/ GenEnter
  \/ LoopTop
  \/ Draw1
  \/ Refill
  \/ Draw2
  \/ ShuffleInit
  \/ ShuffleStep
  \/ Validate

Spec == Init /\ [][Next]_vars

\* ---------------------------------------------------------------- sampler harness
\* get_unbiased_random_char called on its own: any of these charsets, a pool
\* of two 4-byte groups, and a cursor at a group boundary, inside a group or
\* at the end
HarnessCharsets ==
  { UPPERCASE, NUMBERS, SYMBOLS, << "x" >>, << "x", "y", "z" >>, << >>,
    UPPERCASE \o LOWERCASE \o NUMBERS \o SYMBOLS }

\* 0, small values, a value with four different bytes, the thresholds of the
\* 26-, 10- and 16-character charsets with their successors, and u32::MAX
HarnessWords ==
  { << 0, 0 >>, << 0, 263 >>, << 1, 0 >>, << 258, 772 >>,
    << 65535, 65514 >>, << 65535, 65515 >>, << 65535, 65530 >>, << 65535, 65531 >>,
    << 65535, 65520 >>, << 65535, 65521 >>, << 65535, 65535 >> }

HarnessPools == { to_le_bytes(a) \o to_le_bytes(b) : a \in HarnessWords, b \in HarnessWords }

SamplerInit ==
  /\ IoIdle
  /\ caller = "harness" /\ pc = "sample"
  /\ args = << >> /\ length = 0 /\ req = DefaultRequirements
  /\ rng = "none" /\ refills = 0 /\ password = << >> /\ phase = 0 /\ k = 0 /\ ret = NoCall
  /\ shuffle_entropy = << >> /\ i = 0 /\ result = << >> /\ returned = FALSE
  /\ u_n = 0 /\ u_next = 0 /\ u_count = << >>
  /\ h_charset \in HarnessCharsets
  /\ entropy_pool \in HarnessPools
  /\ pool_index \in { 0, 4, 5, 8 }

SamplerCall ==
  /\ pc = "sample"
  /\ LET r == get_unbiased_random_char(h_charset, entropy_pool, pool_index) IN
     IF r.panic
       THEN /\ Panic("attempt to calculate the remainder with a divisor of zero")
            /\ UNCHANGED genVars
       ELSE /\ ret' = r.ret
            /\ pool_index' = r.idx
            /\ pc' = "sampled"
            /\ UNCHANGED << caller, args, length, req, rng, refills, password, entropy_pool,
                            phase, k, shuffle_entropy, i, result, returned, ioVars,
                            panic_msg, auxVars >>

SamplerNext == SamplerCall

SamplerSpec == SamplerInit /\ [][SamplerNext]_vars

\* ---------------------------------------------------------------- narrow-word enumeration
\* the sampler's accept test and index, fed every value of a word of two
\* limbs of base SmallLimb, for one alphabet size
UniformInit ==
  /\ GenIdle /\ IoIdle
  /\ caller = "enumeration" /\ pc = "tally"
  /\ args = << >> /\ length = 0 /\ req = DefaultRequirements
  /\ h_charset = << >>
  /\ u_n \in 2 .. MaxN
  /\ u_next = 0
  /\ u_count = [x \in 0 .. u_n - 1 |-> 0]

Tally ==
  /\ pc = "tally"
  /\ u_next < SmallLimb * SmallLimb
  /\ LET at == SampleWord(SmallLimb, u_n, ToWord(SmallLimb, u_next)) IN
       u_count' = IF at >= 0 THEN [u_count EXCEPT ![at] = @ + 1] ELSE u_count
  /\ u_next' = u_next + 1
  /\ pc' = IF u_next + 1 = SmallLimb * SmallLimb THEN "tallied" ELSE "tally"
  /\ UNCHANGED << caller, args, length, req, genVars, ioVars, panic_msg, h_charset, u_n >>

UniformNext == Tally

UniformSpec == UniformInit /\ [][UniformNext]_vars

\* ---------------------------------------------------------------- fairness
\* the program keeps running while it can take a step; the entropy source
\* stops delivering rejected words after MaxRefills refills (AllowedFills)
FairSpec == Init /\ [][Next]_vars /\ WF_vars(Next)

\* ---------------------------------------------------------------- properties
\* the character classes, stated apart from the program's alphabets
UpperChars ==
  { "A","B","C","D","E","F","G","H","I","J","K","L","M",
    "N","O","P","Q","R","S","T","U","V","W","X","Y","Z" }
LowerChars ==
  { "a","b","c","d","e","f","g","h","i","j","k","l","m",
    "n","o","p","q","r","s","t","u","v","w","x","y","z" }
DigitChars == { "0","1","2","3","4","5","6","7","8","9" }
SymbolChars == { "!","@","#","$","%","^","&","*","(",")","-","_","=","+","[","]" }

NumberOf(chars, str) == Cardinality({ x \in 1 .. Len(str) : str[x] \in chars })

SumOfMinimums == req.min_upper + req.min_lower + req.min_number + req.min_symbol

LengthInRange == 12 <= length /\ length <= 128

\* the multiset of a sequence's elements
BagOfSeq(sq) ==
  [c \in { sq[x] : x \in 1 .. Len(sq) } |-> Cardinality({ x \in 1 .. Len(sq) : sq[x] = c })]

\* C1: a returned password holds at least min_upper uppercase, min_lower
\* lowercase, min_number digit and min_symbol symbol characters, whatever the
\* entropy source delivered.
ClassMinimums ==
  returned =>
    /\ NumberOf(UpperChars, result) >= req.min_upper
    /\ NumberOf(LowerChars, result) >= req.min_lower
    /\ NumberOf(DigitChars, result) >= req.min_number
    /\ NumberOf(SymbolChars, result) >= req.min_symbol

\* a password was returned after a rejected draw, for minimums that fill the
\* whole length
ClassMinimumsWitness ==
  /\ returned /\ refills >= 2
  /\ LengthInRange /\ SumOfMinimums = length
  /\ NumberOf(UpperChars, result) = 3

\* C2: a returned password has exactly `length` characters.
ExactLength == returned => Len(result) = length

\* a password of the requested length was returned after a rejected draw and
\* a refill, the filler having run
ExactLengthWitness ==
  /\ returned /\ refills >= 2
  /\ SumOfMinimums < length
  /\ Len(result) = length

\* C3: every character of a returned password belongs to a class whose has_*
\* flag is true.
AlphabetClosure ==
  returned =>
    \A x \in 1 .. Len(result) :
      \/ req.has_upper /\ result[x] \in UpperChars
      \/ req.has_lower /\ result[x] \in LowerChars
      \/ req.has_number /\ result[x] \in DigitChars
      \/ req.has_symbol /\ result[x] \in SymbolChars

\* C4: once generation has started with a valid length and satisfiable
\* requirements (and a filler alphabet to draw from), a "no symbol" outcome of
\* the sampler never aborts it: the invocation does not end in a panic.
NoSymbolNeverAborts ==
  (rng = "seeded" /\ LengthInRange /\ SumOfMinimums <= length /\ FillerCharset(req) # << >>)
    => pc # "panicked"

IsPowerOfTwo(n) == \E e \in 0 .. n : 2 ^ e = n

\* C5: for an alphabet size that is not a power of two, every index is
\* selected by the same number of word values.
UniformSelection ==
  (pc = "tallied" /\ ~IsPowerOfTwo(u_n)) =>
    \A a \in 0 .. u_n - 1 : \A b \in 0 .. u_n - 1 : u_count[a] = u_count[b]

\* u32::MAX % n, from 2^32 - 1 = 65535 * 65537
U32MaxMod(n) == ((65535 % n) * (65537 % n)) % n

\* u32::MAX - v for the little-endian bytes b of v, capped at 256
GapToMax(b) == IF b[2] = 255 /\ b[3] = 255 /\ b[4] = 255 THEN 255 - b[1] ELSE 256

\* v % n for the little-endian bytes b of v
BytesMod(b, n) == ((((((b[4] % n) * 256 + b[3]) % n) * 256 + b[2]) % n) * 256 + b[1]) % n

\* C6: with at least 4 unread bytes, the sampler returns None when the 4
\* bytes at the cursor decode (little-endian) to v > max_valid, and otherwise
\* the symbol at index v mod N.
RejectionCorrectness ==
  [][ (pc = "sample" /\ Len(h_charset) > 0 /\ pool_index + 4 <= Len(entropy_pool)) =>
        LET b == [x \in 1 .. 4 |-> entropy_pool[pool_index + x]]
            n == Len(h_charset)
        IN  IF GapToMax(b) < U32MaxMod(n)
              THEN ret' = None
              ELSE ret' = Some(h_charset[BytesMod(b, n) + 1]) ]_vars

\* the 26-character charset was sampled at cursor 0 on a value above its
\* threshold and gave None
RejectionCorrectnessWitness ==
  /\ pc = "sampled" /\ ret = None /\ pool_index = 4
  /\ h_charset = UPPERCASE
  /\ entropy_pool[1] = 235

\* C7: an iteration of the shuffle loop leaves the multiset of the buffer's
\* characters unchanged, so the buffer after the loop is a permutation of the
\* assembled buffer.
ShufflePreservesMultiset ==
  [][ pc = "shuffle" => BagOfSeq(password') = BagOfSeq(password) ]_vars

\* the shuffle loop has finished and has moved a non-uppercase character to
\* the front, where the injector had put an uppercase one
ShufflePreservesMultisetWitness ==
  /\ pc = "validate" /\ req.min_upper > 0
  /\ Len(password) = length
  /\ password[1] \notin UpperChars

\* C8: for a valid length and satisfiable requirements,
\* generate_secure_password eventually returns a password.
EventuallyReturns ==
  (pc = "call" /\ LengthInRange /\ SumOfMinimums <= length) ~> returned

\* the argument vector names a length in [12, 128]
ArgsNameValidLength ==
  /\ Len(args) = 2
  /\ ParseUsize(args[2]) >= 12
  /\ ParseUsize(args[2]) <= 128

\* C9: the command-line run ends with status 1 and no password printed for a
\* wrong argument count, a non-integer argument or a length outside [12,128],
\* and with status 0 after printing the password line for a length inside.
CommandLineContract ==
  (caller = "main" /\ pc \in { "exited", "panicked" }) =>
    IF ArgsNameValidLength
      THEN /\ exit_code = 0
           /\ Len(stdout) = 1
           /\ stdout[1][1] = "Generated Secure Password: "
           /\ Len(stdout[1][2]) = ParseUsize(args[2])
      ELSE exit_code = 1 /\ stdout = << >>

\* C10: with a length outside [12,128] or minimums summing to more than the
\* length, generate_secure_password aborts before the entropy source exists:
\* no rng, no pool, no refill, no sampler call, and nothing is returned.
AbortsBeforeEntropy ==
  (caller = "direct" /\ (~LengthInRange \/ SumOfMinimums > length)) =>
    /\ rng = "none" /\ refills = 0 /\ entropy_pool = << >> /\ shuffle_entropy = << >>
    /\ ret = NoCall
    /\ ~returned /\ result = << >>
    /\ pc \in { "call", "panicked" }

\* a call with a valid length and minimums exceeding it has panicked
AbortsBeforeEntropyWitness ==
  /\ caller = "direct" /\ pc = "panicked"
  /\ LengthInRange /\ SumOfMinimums > length
  /\ panic_msg = "Password length too short for requirements"

\* C11: when generate_secure_password has returned a password, every byte
\* of the entropy pool and of the shuffle-entropy buffer is 0, however many
\* refills happened.
BuffersZeroedAtReturn ==
  returned =>
    /\ Len(entropy_pool) = 8 * length
    /\ Len(shuffle_entropy) = 4 * length
    /\ \A p \in 1 .. Len(entropy_pool) : entropy_pool[p] = 0
    /\ \A p \in 1 .. Len(shuffle_entropy) : shuffle_entropy[p] = 0

\* a password was returned after three pool fills, two of them forced by
\* rejected draws, and the last group of each buffer reads zero
BuffersZeroedAtReturnWitness ==
  /\ returned /\ refills = 3
  /\ entropy_pool[Len(entropy_pool) - 3] = 0
  /\ shuffle_entropy[Len(shuffle_entropy) - 3] = 0

\* C12: the validation after the shuffle never fails: the step out of
\* "validate" is the return, and the top of the outer loop is entered only
\* from the function's entry, so the loop body runs once.
ValidationNeverFails ==
  [][ /\ pc = "validate" =>
           (pc' = "returned" /\ returned'
              /\ NumberOf(UpperChars, password) >= req.min_upper
              /\ NumberOf(LowerChars, password) >= req.min_lower
              /\ NumberOf(DigitChars, password) >= req.min_number
              /\ NumberOf(SymbolChars, password) >= req.min_symbol)
      /\ pc' = "loop" => pc = "call" ]_vars

\* the first validation has passed for requirements with minimums in two
\* classes, after a refill caused by a rejected draw
ValidationNeverFailsWitness ==
  /\ pc = "returned" /\ refills >= 2
  /\ req.min_upper = 2 /\ req.min_number = 1
  /\ NumberOf(UpperChars, result) >= 2

\* C13: called with fewer than 4 unread bytes, the sampler returns None and
\* leaves the cursor and every pool byte as they were.
ExhaustedCallConsumesNothing ==
  [][ (pc = "sample" /\ Len(h_charset) > 0 /\ pool_index + 4 > Len(entropy_pool)) =>
        /\ pc' = "sampled"
        /\ ret' = None
        /\ pool_index' = pool_index
        /\ entropy_pool' = entropy_pool ]_vars

\* the sampler was called with 3 unread bytes of an 8-byte pool and gave
\* None with the cursor still at 5
ExhaustedCallConsumesNothingWitness ==
  /\ pc = "sampled" /\ ret = None
  /\ pool_index = 5 /\ Len(entropy_pool) = 8
  /\ h_charset = NUMBERS

\* C14: during generation the pool has 8 * length bytes and the cursor is a
\* multiple of 4 between 0 and that capacity; from a state with cursor + 4 >
\* capacity the cursor moves only by a refill that resets it to 0, so no
\* group is decoded there.
CursorWithinPool ==
  /\ [](rng = "seeded" =>
          /\ Len(entropy_pool) = 8 * length
          /\ pool_index % 4 = 0
          /\ 0 <= pool_index /\ pool_index <= 8 * length)
  /\ [][ (rng = "seeded" /\ pool_index + 4 > 8 * length /\ pool_index' # pool_index) =>
           (pool_index' = 0 /\ refills' = refills + 1 /\ Len(entropy_pool') = 8 * length) ]_vars

\* the pool, exhausted at its creation, has been filled and one group of it
\* has been read
CursorWithinPoolWitness ==
  /\ pc = "draw2" /\ refills = 1
  /\ pool_index = 4
  /\ entropy_pool[1] # 0

\* C15: a sampler call that finds at least 4 unread bytes advances the cursor
\* by exactly 4, accepted or rejected, and changes no pool byte; the cursor
\* never moves otherwise, except back to 0 together with a refill.
CursorAdvancesByFour ==
  [][ /\ (pc \in { "draw1", "draw2" } /\ CurrentCharset # << >>
            /\ pool_index + 4 <= Len(entropy_pool)) =>
           (pool_index' = pool_index + 4 /\ entropy_pool' = entropy_pool)
      /\ (rng = "seeded" /\ pool_index' # pool_index) =>
           \/ pool_index' = pool_index + 4 /\ pc \in { "draw1", "draw2" }
           \/ pool_index' = 0 /\ refills' = refills + 1 ]_vars

\* a draw of the second character was rejected and the cursor stands 4 bytes
\* further, past the rejected group
CursorAdvancesByFourWitness ==
  /\ pc = "refill" /\ ret = None
  /\ pool_index = 12
  /\ Len(password) = 1

\* the class a character of the injected prefix must have at position x
InjectedClassAt(x) ==
  IF x <= req.min_upper THEN UpperChars
  ELSE IF x <= req.min_upper + req.min_lower THEN LowerChars
  ELSE IF x <= req.min_upper + req.min_lower + req.min_number THEN DigitChars
  ELSE SymbolChars

\* C16: when the injector ends, the buffer holds exactly the sum of the four
\* minimums, in class order: uppercase, lowercase, digits, symbols.
InjectorOutput ==
  [][ (phase # 5 /\ phase' = 5) =>
        /\ Len(password') = SumOfMinimums
        /\ \A x \in 1 .. Len(password') : password'[x] \in InjectedClassAt(x) ]_vars

\* the injector has just ended after a refill, with one digit and two
\* symbols in the buffer although both classes are disabled
InjectorOutputWitness ==
  /\ pc = "draw1" /\ phase = 5 /\ refills >= 2
  /\ Len(password) = 3 /\ SumOfMinimums = 3
  /\ ~req.has_number /\ ~req.has_symbol
  /\ ret = Some(password[3])
  /\ password[1] \in DigitChars /\ password[3] \in SymbolChars

\* C17: when the sampler call whose result is unwrapped runs, at least 4
\* unread bytes remain; the cursor counted in groups is even at every call of
\* the while-let condition and odd at every unwrapped call.
SecondDrawNeverExhausted ==
  /\ pc = "draw2" =>
       (pool_index + 4 <= Len(entropy_pool) /\ (pool_index \div 4) % 2 = 1)
  /\ pc = "draw1" => (pool_index \div 4) % 2 = 0
  /\ (pc = "panicked" /\ panic_msg = "called Option::unwrap() on a None value") =>
       (pool_index >= 4
          /\ GapToMax([x \in 1 .. 4 |-> entropy_pool[pool_index - 4 + x]])
               < U32MaxMod(Len(CurrentCharset)))

\* the unwrapped call of the last character of a length-13 password is about
\* to run on the last group of the pool
SecondDrawNeverExhaustedWitness ==
  /\ pc = "draw2" /\ length = 13
  /\ Len(password) = 12
  /\ pool_index + 4 = Len(entropy_pool)

\* the 4 bytes of the pool at byte offset `at`
GroupAt(at) == [x \in 1 .. 4 |-> entropy_pool[at + x]]

\* the group's value is above the threshold of an n-character charset
GroupRejected(b, n) == GapToMax(b) < U32MaxMod(n)

\* C18: a character is appended only by the unwrapped call, after two
\* accepted groups, and it is the symbol of the second; a refill other than
\* the initial one follows a rejected draw; so in a run without rejected
\* draws there is one refill, the cursor is 8 bytes per character, and
\* assembly ends with 2 * length groups consumed and the cursor at capacity.
TwoGroupsPerCharacter ==
  /\ [](/\ pc = "refill" =>
             (pool_index >= 4
                /\ GroupRejected(GroupAt(pool_index - 4), Len(CurrentCharset)))
        /\ (refills = 1 /\ pc = "draw1") => pool_index = 8 * Len(password)
        /\ (refills = 1 /\ pc = "draw2") => pool_index = 8 * Len(password) + 4
        /\ (refills = 1 /\ pc \in { "shuffle_init", "shuffle", "validate", "returned" }) =>
             (Len(password) = length
                /\ pool_index = 2 * length * 4
                /\ pool_index = Len(entropy_pool)))
  /\ [][ Len(password') > Len(password) =>
           /\ pc = "draw2"
           /\ pool_index >= 4
           /\ ~GroupRejected(GroupAt(pool_index - 4), Len(CurrentCharset))
           /\ ~GroupRejected(GroupAt(pool_index), Len(CurrentCharset))
           /\ pool_index' = pool_index + 4
           /\ password' =
                Append(password,
                       CurrentCharset[BytesMod(GroupAt(pool_index), Len(CurrentCharset)) + 1]) ]_vars

\* a length-12 buffer was assembled from the initial fill alone and the
\* cursor stands at the end of the 96-byte pool
TwoGroupsPerCharacterWitness ==
  /\ pc = "shuffle_init" /\ refills = 1
  /\ length = 12 /\ Len(password) = 12
  /\ pool_index = 96

AllClassesDisabled ==
  ~req.has_upper /\ ~req.has_lower /\ ~req.has_number /\ ~req.has_symbol

RemainderByZero == "attempt to calculate the remainder with a divisor of zero"

\* C19: with all four has_* flags false, a call with minimums below the
\* length never returns and, once the injector is done, its first filler
\* sample panics (remainder by zero); a call with minimums equal to the
\* length never samples for the filler, never hits that panic, and what it
\* returns consists of the injected characters only.
EmptyFillerAlphabet ==
  (caller = "direct" /\ AllClassesDisabled /\ LengthInRange /\ SumOfMinimums <= length) =>
    /\ SumOfMinimums < length =>
         /\ ~returned
         /\ phase = 5 => (pc \in { "draw1", "panicked" } /\ Len(password) = SumOfMinimums)
         /\ (phase = 5 /\ pc = "panicked") => panic_msg = RemainderByZero
    /\ SumOfMinimums = length =>
         /\ panic_msg # RemainderByZero
         /\ phase = 5 => pc \notin { "draw1", "refill", "draw2" }
         /\ returned =>
              /\ Len(result) = length
              /\ NumberOf(UpperChars, result) = req.min_upper
              /\ NumberOf(LowerChars, result) = req.min_lower
              /\ NumberOf(DigitChars, result) = req.min_number
              /\ NumberOf(SymbolChars, result) = req.min_symbol

\* with every class disabled and three injected characters, the first filler
\* sample has panicked
EmptyFillerAlphabetWitness ==
  /\ caller = "direct" /\ AllClassesDisabled
  /\ pc = "panicked" /\ phase = 5
  /\ panic_msg = RemainderByZero
  /\ SumOfMinimums = 3 /\ Len(password) = 3

====
